---- MODULE Spec2Model ----
(***************************************************************************)
(* Model of wsidicomizer/dataset.py: the builders of the DICOM WSI base    *)
(* dataset, the specimen description of a sample and the specimen module   *)
(* of a slide, and the image type derivation.                              *)
(*                                                                         *)
(* The builders are functions; the state is what a caller holds: the state *)
(* of the injected UID generator and the call it has made and not yet      *)
(* dropped the outcome of (function, arguments, outcome).  Every builder   *)
(* action is one whole call.                                               *)
(***************************************************************************)
EXTENDS Integers, Sequences, FiniteSets, TLC

VARIABLES
    uid_state,               \* number of UIDs the injected uid_generator has handed out
    call,                    \* the call in hand: function, arguments, outcome
    substances_may_be_empty  \* whether the installed SpecimenStaining accepts []

vars == <<uid_state, call, substances_may_be_empty>>

-----------------------------------------------------------------------------
(* Bounds of the model.                                                    *)

MaxLevel == 2        \* pyramid level indices 0..MaxLevel
MaxStainings == 2    \* longest staining list passed to create_simple_sample
MaxSamples == 2      \* longest sample list passed to create_simple_specimen_module
MaxUidCalls == 8     \* the uid generator is called at most this many times

-----------------------------------------------------------------------------
(* Python values.  An Optional[T] argument is None or a value; it is       *)
(* modelled as the empty tuple or the one-element tuple holding the value, *)
(* so that [] (Some(<<>>)) and None differ as they do for "is not None".   *)

None == <<>>
Some(v) == <<v>>
Value(o) == o[1]

(* The outcome of an evaluation: it returns a value or raises.  A builder  *)
(* that takes the uid generator also leaves the generator in some state.   *)
Returned(v) == [raised |-> FALSE, error |-> None, ret |-> v]
Raised(e) == [raised |-> TRUE, error |-> Some(e), ret |-> None]
At(out, us) == [raised |-> out.raised, error |-> out.error, ret |-> out.ret,
                uid_state |-> us]

-----------------------------------------------------------------------------
(* The injected uid_generator: a stub that hands out a fresh UID per call. *)

UidPrefix == "1.2.826.0.1.3680043.8.498."

uid_generator(state) ==
    [uid |-> UidPrefix \o ToString(state + 1), state |-> state + 1]

-----------------------------------------------------------------------------
(* get_image_type                                                          *)

ImageFlavors == {"VOLUME", "LABEL", "OVERVIEW"}

get_image_type_resampled_at_level_0(image_flavor, level_index) ==
    LET resampled == IF level_index = 0 THEN "NONE" ELSE "RESAMPLED"
    IN  <<"ORGINAL", "PRIMARY", image_flavor, resampled>>

get_image_type(image_flavor, level_index) ==
    LET resampled == IF image_flavor = "VOLUME" /\ level_index = 0
                     THEN "NONE"
                     ELSE "RESAMPLED"
    IN  <<"ORGINAL", "PRIMARY", image_flavor, resampled>>

-----------------------------------------------------------------------------
(* create_wsi_dataset                                                      *)

create_wsi_dataset_two_dimension_uids(us) ==
    LET study == uid_generator(us)
        series == uid_generator(study.state)
        frame == uid_generator(series.state)
        dimension_organization_uid == uid_generator(frame.state)
        dimension_index_uid == uid_generator(dimension_organization_uid.state)
        dimension_organization_sequence ==
            [DimensionOrganizationUID |-> dimension_organization_uid.uid]
        dimension_index_sequence ==
            [DimensionOrganizationUID |-> dimension_index_uid.uid,
             DimensionIndexPointer |-> "PlanePositionSlideSequence"]
    IN  At(Returned(
            [StudyInstanceUID |-> study.uid,
             SeriesInstanceUID |-> series.uid,
             FrameOfReferenceUID |-> frame.uid,
             Modality |-> "SM",
             SOPClassUID |-> "1.2.840.10008.5.1.4.1.1.77.1.6",
             DimensionOrganizationSequence |-> <<dimension_organization_sequence>>,
             DimensionIndexSequence |-> <<dimension_index_sequence>>,
             BurnedInAnnotation |-> "NO",
             SpecimenLabelInImage |-> "NO",
             VolumetricProperties |-> "VOLUME"]),
            dimension_index_uid.state)

create_wsi_dataset(us) ==
    LET study == uid_generator(us)
        series == uid_generator(study.state)
        frame == uid_generator(series.state)
        dimension_organization_uid == uid_generator(frame.state)
        dimension_organization_sequence ==
            [DimensionOrganizationUID |-> dimension_organization_uid.uid]
        dimension_index_sequence ==
            [DimensionOrganizationUID |-> dimension_organization_uid.uid,
             DimensionIndexPointer |-> "PlanePositionSlideSequence"]
    IN  At(Returned(
            [StudyInstanceUID |-> study.uid,
             SeriesInstanceUID |-> series.uid,
             FrameOfReferenceUID |-> frame.uid,
             Modality |-> "SM",
             SOPClassUID |-> "1.2.840.10008.5.1.4.1.1.77.1.6",
             DimensionOrganizationSequence |-> <<dimension_organization_sequence>>,
             DimensionIndexSequence |-> <<dimension_index_sequence>>,
             BurnedInAnnotation |-> "NO",
             SpecimenLabelInImage |-> "NO",
             VolumetricProperties |-> "VOLUME"]),
            dimension_organization_uid.state)

-----------------------------------------------------------------------------
(* Coded concepts: wsidicom.conceptcode.  Each class resolves a meaning    *)
(* against the context group of its own category and raises on a meaning   *)
(* the group does not hold; .code is the (value, scheme, meaning) triple.  *)

Code(value, scheme_designator, meaning) ==
    [value |-> value, scheme_designator |-> scheme_designator, meaning |-> meaning]

UnknownCodeError(category, meaning) ==
    [type |-> "UnknownCodeError", category |-> category, value |-> meaning]

StainsCid ==
    [m \in {"hematoxylin stain", "water soluble eosin stain"} |->
        IF m = "hematoxylin stain"
        THEN Code("12710003", "SCT", m)
        ELSE Code("36879007", "SCT", m)]

EmbeddingMediaCid ==
    [m \in {"Paraffin wax"} |-> Code("311731000", "SCT", m)]

FixativesCid ==
    [m \in {"Neutral Buffered Formalin"} |-> Code("434162003", "SCT", m)]

PreparationProcedureCid ==
    [m \in {"Staining"} |-> Code("127790008", "SCT", m)]

CidConceptCode(cid, category, meaning) ==
    IF meaning \in DOMAIN cid
    THEN Returned(cid[meaning])
    ELSE Raised(UnknownCodeError(category, meaning))

SpecimenStainsCode(meaning) ==
    CidConceptCode(StainsCid, "SpecimenStainsCode", meaning)

SpecimenEmbeddingMediaCode(meaning) ==
    CidConceptCode(EmbeddingMediaCid, "SpecimenEmbeddingMediaCode", meaning)

SpecimenFixativesCode(meaning) ==
    CidConceptCode(FixativesCid, "SpecimenFixativesCode", meaning)

SpecimenPreparationProcedureCode(meaning) ==
    CidConceptCode(PreparationProcedureCid, "SpecimenPreparationProcedureCode",
                   meaning)

-----------------------------------------------------------------------------
(* Specimen content: highdicom.content, as dataset.py constructs it.       *)

(* One "Using substance" content item per substance, in the given order.   *)
(* highdicom is not pinned by dataset.py: the release in use either        *)
(* rejects an empty list of substances with a ValueError or accepts it.    *)
(* Which one holds is fixed for a run (substances_may_be_empty).           *)
SpecimenStaining(substances) ==
    IF substances = <<>> /\ ~substances_may_be_empty
    THEN Raised([type |-> "ValueError", category |-> "SpecimenStaining",
                 value |-> ""])
    ELSE Returned([i \in 1..Len(substances) |->
                     [name |-> "Using substance", value |-> substances[i]]])

SpecimenPreparationStep(specimen_id, processing_type, processing_procedure, embedding_medium, fixative) ==
    [specimen_id |-> specimen_id,
     processing_type |-> processing_type,
     processing_procedure |-> processing_procedure,
     embedding_medium |-> embedding_medium,
     fixative |-> fixative]

(* specimen_preparation_steps = None gives an empty preparation sequence.  *)
SpecimenDescription(specimen_id, specimen_uid, specimen_preparation_steps) ==
    [SpecimenIdentifier |-> specimen_id,
     SpecimenUID |-> specimen_uid,
     SpecimenPreparationSequence |->
        IF specimen_preparation_steps = None
        THEN <<>>
        ELSE Value(specimen_preparation_steps)]

-----------------------------------------------------------------------------
(* create_simple_sample                                                    *)

(* Variants of the comprehension: one resolves the list from its end, one  *)
(* returns the codes in reverse.                                           *)
RECURSIVE SpecimenStainsCodes_from_the_end(_)
SpecimenStainsCodes_from_the_end(stainings) ==
    IF stainings = <<>>
    THEN Returned(<<>>)
    ELSE LET n == Len(stainings)
             last == SpecimenStainsCode(stainings[n])
         IN  IF last.raised
             THEN last
             ELSE LET rest == SpecimenStainsCodes_from_the_end(SubSeq(stainings, 1, n - 1))
                  IN  IF rest.raised
                      THEN rest
                      ELSE Returned(rest.ret \o <<last.ret>>)

RECURSIVE SpecimenStainsCodes_reversed(_)
SpecimenStainsCodes_reversed(stainings) ==
    IF stainings = <<>>
    THEN Returned(<<>>)
    ELSE LET first == SpecimenStainsCode(Head(stainings))
         IN  IF first.raised
             THEN first
             ELSE LET rest == SpecimenStainsCodes_reversed(Tail(stainings))
                  IN  IF rest.raised
                      THEN rest
                      ELSE Returned(rest.ret \o <<first.ret>>)

(* [SpecimenStainsCode(staining).code for staining in stainings]: the      *)
(* comprehension resolves left to right and stops at the first raise.      *)
RECURSIVE SpecimenStainsCodes(_)
SpecimenStainsCodes(stainings) ==
    IF stainings = <<>>
    THEN Returned(<<>>)
    ELSE LET first == SpecimenStainsCode(Head(stainings))
         IN  IF first.raised
             THEN first
             ELSE LET rest == SpecimenStainsCodes(Tail(stainings))
                  IN  IF rest.raised
                      THEN rest
                      ELSE Returned(<<first.ret>> \o rest.ret)

(* Variant: one preparation step per staining instead of one step.        *)
sample_preparation_steps_step_per_staining(sample_id, embedding_medium, fixative, stainings) ==
    LET embedding_medium_code ==
            IF embedding_medium # None
            THEN SpecimenEmbeddingMediaCode(Value(embedding_medium))
            ELSE Returned(None)
        fixative_code ==
            IF fixative # None
            THEN SpecimenFixativesCode(Value(fixative))
            ELSE Returned(None)
        processing_type == SpecimenPreparationProcedureCode("Staining")
        codes == SpecimenStainsCodes(Value(stainings))
        processing_procedure == SpecimenStaining(codes.ret)
        Opt(code, given) == IF given # None THEN Some(code.ret) ELSE None
    IN  IF embedding_medium_code.raised THEN embedding_medium_code
        ELSE IF fixative_code.raised THEN fixative_code
        ELSE IF stainings # None
        THEN IF processing_type.raised THEN processing_type
             ELSE IF codes.raised THEN codes
             ELSE IF processing_procedure.raised THEN processing_procedure
             ELSE Returned(Some(
                    [i \in 1..Len(processing_procedure.ret) |->
                        SpecimenPreparationStep(
                            sample_id,
                            processing_type.ret,
                            <<processing_procedure.ret[i]>>,
                            Opt(embedding_medium_code, embedding_medium),
                            Opt(fixative_code, fixative))]))
        ELSE Returned(None)

(* Lines 116-140: the codes of the optional arguments and the list of      *)
(* preparation steps, None when stainings is None.                         *)
sample_preparation_steps(sample_id, embedding_medium, fixative, stainings) ==
    LET embedding_medium_code ==
            IF embedding_medium # None
            THEN SpecimenEmbeddingMediaCode(Value(embedding_medium))
            ELSE Returned(None)
        fixative_code ==
            IF fixative # None
            THEN SpecimenFixativesCode(Value(fixative))
            ELSE Returned(None)
        processing_type == SpecimenPreparationProcedureCode("Staining")
        codes == SpecimenStainsCodes(Value(stainings))
        processing_procedure == SpecimenStaining(codes.ret)
        Opt(code, given) == IF given # None THEN Some(code.ret) ELSE None
    IN  IF embedding_medium_code.raised THEN embedding_medium_code
        ELSE IF fixative_code.raised THEN fixative_code
        ELSE IF stainings # None
        THEN IF processing_type.raised THEN processing_type
             ELSE IF codes.raised THEN codes
             ELSE IF processing_procedure.raised THEN processing_procedure
             ELSE Returned(Some(<<
                    SpecimenPreparationStep(
                        sample_id,
                        processing_type.ret,
                        processing_procedure.ret,
                        Opt(embedding_medium_code, embedding_medium),
                        Opt(fixative_code, fixative))
                  >>))
        ELSE Returned(None)

(* Variant: a UID is drawn for the step list and another for the record.   *)
create_simple_sample_uid_per_record(sample_id, embedding_medium, fixative, stainings, us) ==
    LET steps == sample_preparation_steps(sample_id, embedding_medium, fixative,
                                          stainings)
        step_uid == uid_generator(us)
        specimen_uid == uid_generator(step_uid.state)
    IN  IF steps.raised
        THEN At(steps, us)
        ELSE At(Returned(SpecimenDescription(sample_id, specimen_uid.uid,
                                             steps.ret)),
                specimen_uid.state)

create_simple_sample(sample_id, embedding_medium, fixative, stainings, us) ==
    LET steps == sample_preparation_steps(sample_id, embedding_medium, fixative,
                                          stainings)
        specimen_uid == uid_generator(us)
    IN  IF steps.raised
        THEN At(steps, us)
        ELSE At(Returned(SpecimenDescription(sample_id, specimen_uid.uid,
                                             steps.ret)),
                specimen_uid.state)

-----------------------------------------------------------------------------
(* create_simple_specimen_module                                           *)

(* pydicom's Sequence holds a new list of the items of the iterable.       *)
DicomSequence(iterable) ==
    [i \in 1..Len(iterable) |-> iterable[i]]

(* Variant: the sequence is filled by popping the caller's list.           *)
create_simple_specimen_module_popping(slide_id, samples) ==
    LET container_type_code_sequence ==
            [CodeValue |-> "258661006",
             CodingSchemeDesignator |-> "SCT",
             CodeMeaning |-> "Slide"]
        container_component_type_code_sequence ==
            [CodeValue |-> "433472003",
             CodingSchemeDesignator |-> "SCT",
             CodeMeaning |-> "Microscope slide coverslip"]
        container_component_sequence ==
            [ContainerComponentMaterial |-> "GLASS",
             ContainerComponentTypeCodeSequence |->
                DicomSequence(<<container_component_type_code_sequence>>)]
        specimen_description_sequence ==
            DicomSequence([i \in 1..Len(samples) |-> samples[Len(samples) + 1 - i]])
    IN  [raised |-> FALSE,
         error |-> None,
         ret |->
            [ContainerIdentifier |-> slide_id,
             ContainerTypeCodeSequence |->
                DicomSequence(<<container_type_code_sequence>>),
             ContainerComponentSequence |->
                DicomSequence(<<container_component_sequence>>),
             SpecimenDescriptionSequence |-> specimen_description_sequence],
         samples |-> <<>>]

(* The outcome also carries the caller's list as the call leaves it.       *)
create_simple_specimen_module(slide_id, samples) ==
    LET container_type_code_sequence ==
            [CodeValue |-> "258661006",
             CodingSchemeDesignator |-> "SCT",
             CodeMeaning |-> "Slide"]
        container_component_type_code_sequence ==
            [CodeValue |-> "433472003",
             CodingSchemeDesignator |-> "SCT",
             CodeMeaning |-> "Microscope slide coverslip"]
        container_component_sequence ==
            [ContainerComponentMaterial |-> "GLASS",
             ContainerComponentTypeCodeSequence |->
                DicomSequence(<<container_component_type_code_sequence>>)]
        specimen_description_sequence == DicomSequence(samples)
    IN  [raised |-> FALSE,
         error |-> None,
         ret |->
            [ContainerIdentifier |-> slide_id,
             ContainerTypeCodeSequence |->
                DicomSequence(<<container_type_code_sequence>>),
             ContainerComponentSequence |->
                DicomSequence(<<container_component_sequence>>),
             SpecimenDescriptionSequence |-> specimen_description_sequence],
         samples |-> samples]

-----------------------------------------------------------------------------
(* The arguments the calls are made with.                                  *)

Unregistered == "Unobtainium"

SampleIds == {None, Some(""), Some("S1")}
SlideIds == {None, Some(""), Some("slide id")}
EmbeddingMedia == {None, Some("Paraffin wax"), Some(Unregistered)}
(* "Paraffin wax" is an embedding medium and no fixative.                  *)
Fixatives == {None, Some("Neutral Buffered Formalin"), Some("Paraffin wax")}
StainingNames ==
    {"hematoxylin stain", "water soluble eosin stain", Unregistered, "Paraffin wax"}
StainingLists == UNION {[1..n -> StainingNames] : n \in 0..MaxStainings}
Stainings == {None} \cup {Some(l) : l \in StainingLists}

(* Specimen descriptions a caller has built before it builds the module.   *)
BuiltSamples ==
    {create_simple_sample(Some(id), None, None, stainings,
                          IF id = "S1" THEN 0 ELSE 1).ret :
        id \in {"S1", "S2"},
        stainings \in {None, Some(<<"hematoxylin stain">>)}}
SampleLists == UNION {[1..n -> BuiltSamples] : n \in 0..MaxSamples}

-----------------------------------------------------------------------------
(* The calls.                                                              *)

NoCall ==
    [fn |-> "none", args |-> None, uid_before |-> 0,
     raised |-> FALSE, error |-> None, ret |-> None]

Call(fn, args, out) ==
    [fn |-> fn, args |-> args, uid_before |-> uid_state,
     raised |-> out.raised, error |-> out.error, ret |-> out.ret]

GetImageType ==
    \E image_flavor \in ImageFlavors, level_index \in 0..MaxLevel :
        /\ call = NoCall
        /\ call' = Call("get_image_type",
                        [image_flavor |-> image_flavor, level_index |-> level_index],
                        Returned(get_image_type(image_flavor, level_index)))
        /\ UNCHANGED <<uid_state, substances_may_be_empty>>

CreateWsiDataset ==
    LET out == create_wsi_dataset(uid_state)
    IN  /\ call = NoCall
        /\ out.uid_state <= MaxUidCalls
        /\ call' = Call("create_wsi_dataset", None, out)
        /\ uid_state' = out.uid_state
        /\ UNCHANGED substances_may_be_empty

CreateSimpleSample ==
    \E sample_id \in SampleIds, embedding_medium \in EmbeddingMedia,
       fixative \in Fixatives, stainings \in Stainings :
        LET out == create_simple_sample(sample_id, embedding_medium, fixative,
                                        stainings, uid_state)
        IN  /\ call = NoCall
            /\ out.uid_state <= MaxUidCalls
            /\ call' = Call("create_simple_sample",
                            [sample_id |-> sample_id,
                             embedding_medium |-> embedding_medium,
                             fixative |-> fixative,
                             stainings |-> stainings],
                            out)
            /\ uid_state' = out.uid_state
            /\ UNCHANGED substances_may_be_empty

CreateSimpleSpecimenModule ==
    \E slide_id \in SlideIds, samples \in SampleLists :
        LET out == create_simple_specimen_module(slide_id, samples)
        IN  /\ call = NoCall
            /\ call' = [fn |-> "create_simple_specimen_module",
                        args |-> [slide_id |-> slide_id, samples |-> samples],
                        uid_before |-> uid_state,
                        raised |-> out.raised, error |-> out.error,
                        ret |-> out.ret,
                        samples |-> out.samples]
            /\ UNCHANGED <<uid_state, substances_may_be_empty>>

(* The caller is done with the outcome of the call and drops it.           *)
DropResult ==
    /\ call # NoCall
    /\ call' = NoCall
    /\ UNCHANGED <<uid_state, substances_may_be_empty>>

Init ==
    /\ uid_state = 0
    /\ call = NoCall
    /\ substances_may_be_empty \in BOOLEAN

Next ==
    \/ GetImageType
    \/ CreateWsiDataset
    \/ CreateSimpleSample
    \/ CreateSimpleSpecimenModule
    \/ DropResult

Spec == Init /\ [][Next]_vars

-----------------------------------------------------------------------------
(* Properties.                                                             *)

SampleCall == call.fn = "create_simple_sample"
ModuleCall == call.fn = "create_simple_specimen_module"
ImageTypeCall == call.fn = "get_image_type"
WsiCall == call.fn = "create_wsi_dataset"

(* The UID the k-th invocation of the generator made during the call gave. *)
GeneratedUid(k) == uid_generator(call.uid_before + k - 1).uid
UidCalls == uid_state - call.uid_before

RegisteredStain(name) == name \in DOMAIN StainsCid
Registered(o, cid) == o = None \/ Value(o) \in DOMAIN cid
FirstUnregistered(l) ==
    l[CHOOSE i \in 1..Len(l) :
        /\ ~RegisteredStain(l[i])
        /\ \A j \in 1..(i - 1) : RegisteredStain(l[j])]

(* C1: a call of create_simple_sample with stainings None or [] returns a  *)
(* Specimen Description without Preparation Step, whatever the embedding   *)
(* medium and fixative: what it returns has no step, and it fails only on  *)
(* an embedding medium or fixative that cannot be resolved.                *)
C1_NoStepWithoutStainings ==
    (SampleCall /\ call.args.stainings \in {None, Some(<<>>)})
        => /\ ~call.raised => call.ret.SpecimenPreparationSequence = <<>>
           /\ call.raised =>
                Value(call.error).category \in
                    {"SpecimenEmbeddingMediaCode", "SpecimenFixativesCode"}

(* C2: get_image_type returns 4 elements, the first "ORIGINAL" and the     *)
(* second "PRIMARY", for every flavor and level.                           *)
C2_ImageTypeOriginalPrimary ==
    ImageTypeCall
        => /\ Len(call.ret) = 4
           /\ call.ret[1] = "ORIGINAL"
           /\ call.ret[2] = "PRIMARY"

(* C3: get_image_type returns exactly 4 elements, the third is the flavor  *)
(* passed in, and the fourth is "NONE" if and only if the flavor is VOLUME *)
(* and the level index is 0, and "RESAMPLED" otherwise.                    *)
C3_ImageTypeFlavorAndResampled ==
    ImageTypeCall
        => /\ ~call.raised
           /\ Len(call.ret) = 4
           /\ call.ret[3] = call.args.image_flavor
           /\ call.ret[4] \in {"NONE", "RESAMPLED"}
           /\ call.ret[4] = "NONE"
                <=> (call.args.image_flavor = "VOLUME" /\ call.args.level_index = 0)

C3_Witness ==
    /\ ImageTypeCall
    /\ call.args.image_flavor = "VOLUME"
    /\ call.args.level_index = 0
    /\ call.ret[4] = "NONE"

(* C4 as stated: a staining list with an unregistered string makes the     *)
(* call fail with UnknownCodeError identifying the first such string in    *)
(* list order, with no Specimen Description returned and the UID generator *)
(* not invoked.                                                            *)
C4_UnregisteredStainingIdentified ==
    (/\ SampleCall
     /\ call.args.stainings # None
     /\ \E i \in 1..Len(Value(call.args.stainings)) :
            ~RegisteredStain(Value(call.args.stainings)[i]))
        => /\ call.raised
           /\ Value(call.error).type = "UnknownCodeError"
           /\ Value(call.error).value = FirstUnregistered(Value(call.args.stainings))
           /\ call.ret = None
           /\ UidCalls = 0

(* C4 amended: when the embedding medium and the fixative are each absent  *)
(* or registered, a staining list with an unregistered string makes the    *)
(* call fail with the UnknownCodeError of the staining vocabulary for the  *)
(* first such string in list order, with no Specimen Description returned  *)
(* and the UID generator not invoked.  With an unregistered embedding      *)
(* medium or fixative the call fails likewise, without record or UID, but  *)
(* the error is the one of that argument, which is resolved first.         *)
C4_UnregisteredStainingIdentifiedAfterMedia ==
    (/\ SampleCall
     /\ call.args.stainings # None
     /\ \E i \in 1..Len(Value(call.args.stainings)) :
            ~RegisteredStain(Value(call.args.stainings)[i]))
        => /\ call.raised
           /\ Value(call.error).type = "UnknownCodeError"
           /\ call.ret = None
           /\ UidCalls = 0
           /\ (/\ Registered(call.args.embedding_medium, EmbeddingMediaCid)
               /\ Registered(call.args.fixative, FixativesCid))
                => /\ Value(call.error).category = "SpecimenStainsCode"
                   /\ Value(call.error).value =
                        FirstUnregistered(Value(call.args.stainings))
           /\ ~Registered(call.args.embedding_medium, EmbeddingMediaCid)
                => /\ Value(call.error).category = "SpecimenEmbeddingMediaCode"
                   /\ Value(call.error).value = Value(call.args.embedding_medium)
           /\ (/\ Registered(call.args.embedding_medium, EmbeddingMediaCid)
               /\ ~Registered(call.args.fixative, FixativesCid))
                => /\ Value(call.error).category = "SpecimenFixativesCode"
                   /\ Value(call.error).value = Value(call.args.fixative)

(* Two different unregistered strings, the second one first in the list.   *)
C4_Witness ==
    /\ SampleCall
    /\ call.args.embedding_medium = Some("Paraffin wax")
    /\ call.args.stainings = Some(<<"Paraffin wax", Unregistered>>)
    /\ call.raised
    /\ Value(call.error).value = "Paraffin wax"
    /\ call.uid_before = 1
    /\ uid_state = 1

(* C5: a successful call of create_simple_sample invokes the UID generator *)
(* exactly once, and the specimen UID of the returned Specimen Description *)
(* is exactly the value that invocation returned.                          *)
C5_OneUidPassedThrough ==
    (SampleCall /\ ~call.raised)
        => /\ UidCalls = 1
           /\ call.ret.SpecimenUID = GeneratedUid(1)

C5_Witness ==
    /\ SampleCall
    /\ ~call.raised
    /\ call.uid_before = 2
    /\ call.args.sample_id = Some("S1")
    /\ call.ret.SpecimenUID = UidPrefix \o "3"

(* C6: for a staining list L of length >= 1 of registered staining agents, *)
(* the Preparation Step built by create_simple_sample holds the resolved   *)
(* agents in the order and number of L: its i-th agent is the Coded        *)
(* Concept of L[i].                                                        *)
C6_StainingOrderPreserved ==
    (/\ SampleCall
     /\ ~call.raised
     /\ call.args.stainings # None
     /\ Len(Value(call.args.stainings)) >= 1
     /\ \A i \in 1..Len(Value(call.args.stainings)) :
            RegisteredStain(Value(call.args.stainings)[i]))
        => LET L == Value(call.args.stainings)
               steps == call.ret.SpecimenPreparationSequence
           IN  /\ Len(steps) = 1
               /\ Len(steps[1].processing_procedure) = Len(L)
               /\ \A i \in 1..Len(L) :
                    /\ steps[1].processing_procedure[i].value = StainsCid[L[i]]
                    /\ steps[1].processing_procedure[i].value.meaning = L[i]

C6_Witness ==
    /\ SampleCall
    /\ ~call.raised
    /\ call.args.stainings = Some(<<"water soluble eosin stain", "hematoxylin stain">>)
    /\ call.ret.SpecimenPreparationSequence[1].processing_procedure[1].value.value
            = "36879007"
    /\ call.ret.SpecimenPreparationSequence[1].processing_procedure[2].value.value
            = "12710003"

(* C7: create_simple_specimen_module given N Specimen Descriptions returns *)
(* a Container Record whose SpecimenDescriptionSequence has exactly N      *)
(* entries, the i-th being the i-th input description, and leaves the      *)
(* input list unchanged.                                                   *)
C7_SamplesKeptInOrder ==
    ModuleCall
        => /\ ~call.raised
           /\ Len(call.ret.SpecimenDescriptionSequence) = Len(call.args.samples)
           /\ \A i \in 1..Len(call.args.samples) :
                call.ret.SpecimenDescriptionSequence[i] = call.args.samples[i]
           /\ call.samples = call.args.samples

C7_Witness ==
    /\ ModuleCall
    /\ Len(call.args.samples) = 2
    /\ call.args.samples[1].SpecimenIdentifier = Some("S2")
    /\ call.args.samples[2].SpecimenIdentifier = Some("S1")
    /\ call.ret.SpecimenDescriptionSequence[1].SpecimenIdentifier = Some("S2")

(* C8: create_simple_sample with an empty or absent specimen identifier,   *)
(* and create_simple_specimen_module with an empty or absent container     *)
(* identifier, fail with an error instead of returning a record.           *)
C8_MissingIdentifierFailsFast ==
    /\ (SampleCall /\ call.args.sample_id \in {None, Some("")}) => call.raised
    /\ (ModuleCall /\ call.args.slide_id \in {None, Some("")}) => call.raised

(* C9: a Specimen Description returned by create_simple_sample has at most *)
(* one Preparation Step; a step that is present carries the specimen       *)
(* identifier of the description and the "Staining" procedure code as its  *)
(* processing type.                                                        *)
C9_AtMostOneStainingStep ==
    (SampleCall /\ ~call.raised)
        => LET steps == call.ret.SpecimenPreparationSequence
           IN  /\ Len(steps) <= 1
               /\ call.ret.SpecimenIdentifier = call.args.sample_id
               /\ \A i \in 1..Len(steps) :
                    /\ steps[i].specimen_id = call.ret.SpecimenIdentifier
                    /\ steps[i].processing_type = Code("127790008", "SCT", "Staining")

C9_Witness ==
    /\ SampleCall
    /\ ~call.raised
    /\ call.args.sample_id = Some("S1")
    /\ call.args.fixative = Some("Neutral Buffered Formalin")
    /\ Len(call.ret.SpecimenPreparationSequence) = 1
    /\ call.ret.SpecimenPreparationSequence[1].specimen_id = Some("S1")

(* C10: create_wsi_dataset invokes the UID generator exactly four times    *)
(* and assigns the results in call order to StudyInstanceUID,              *)
(* SeriesInstanceUID, FrameOfReferenceUID and the dimension organization   *)
(* UID; the DimensionOrganizationUID of the DimensionIndexSequence item is *)
(* the one of the DimensionOrganizationSequence item.                      *)
C10_FourUidsInCallOrder ==
    WsiCall
        => /\ ~call.raised
           /\ UidCalls = 4
           /\ call.ret.StudyInstanceUID = GeneratedUid(1)
           /\ call.ret.SeriesInstanceUID = GeneratedUid(2)
           /\ call.ret.FrameOfReferenceUID = GeneratedUid(3)
           /\ Len(call.ret.DimensionOrganizationSequence) = 1
           /\ Len(call.ret.DimensionIndexSequence) = 1
           /\ call.ret.DimensionOrganizationSequence[1].DimensionOrganizationUID
                = GeneratedUid(4)
           /\ call.ret.DimensionIndexSequence[1].DimensionOrganizationUID
                = call.ret.DimensionOrganizationSequence[1].DimensionOrganizationUID

C10_Witness ==
    /\ WsiCall
    /\ call.uid_before = 1
    /\ uid_state = 5
    /\ call.ret.StudyInstanceUID = UidPrefix \o "2"
    /\ call.ret.DimensionIndexSequence[1].DimensionOrganizationUID = UidPrefix \o "5"

====
